---- MODULE Spec2Model ----
(***************************************************************************)
(* Scope matching, scope decision and batch filtering of the bbrf client   *)
(* (src/bbrf.go).  A Go string is modelled as a sequence of one-character  *)
(* strings, so that trimming, lower-casing, prefix/suffix tests, regexp    *)
(* quoting and matching are computed character by character.               *)
(***************************************************************************)
EXTENDS Integers, Sequences, FiniteSets, TLC

VARIABLES
  pc,                 \* position in the command being run
  domain, pattern,    \* arguments of the matchesPattern / ShouldAcceptDomain call
  matched,            \* result of matchesPattern
  sm,                 \* the ScopeManager
  decision,           \* result of ShouldAcceptDomain
  enableScopeFilter,  \* --scope-filter
  allowOutOfScope,    \* --allow-out-of-scope
  key,                \* data key of handleInputAndPost
  value,              \* handleInputAndPost: the input, then the filtered input
  domainsInput,       \* filterDomainsBeforePost: its argument
  domains,            \* filterDomainsBeforePost: the tokens
  idx,                \* filterDomainsBeforePost: position of the range loop
  acceptedDomains,    \* filterDomainsBeforePost: tokens accepted so far
  rejectedCount,      \* filterDomainsBeforePost: tokens rejected so far
  posted,             \* the body handed to call("POST", ...), if any
  command,            \* the cobra command whose Run function is executed
  scopeFilterChanged, \* cmd.Flags().Changed("scope-filter")
  path,               \* endpoint given to handleInputAndPost
  loadErr,            \* filterDomainsBeforePost: the error returned by LoadScope
  rawInput,           \* history: the input as handleInputAndPost read it
  fetchLog,           \* history: the calls of fetchScopeFromServer and their answers
  decisionLog,        \* history: the calls of ShouldAcceptDomain and their results
  args,               \* the arguments handleInputAndPost found (SpecInput)
  inputSource,        \* history: where handleInputAndPost took its input from
  pass,               \* which call of filterDomainsBeforePost this is (SpecTwice)
  firstValue          \* history: what the first call returned

scopeVars == <<domain, pattern, matched, sm, decision>>
flagVars == <<enableScopeFilter, allowOutOfScope, key>>
filterVars == <<domainsInput, domains, idx, acceptedDomains, rejectedCount>>
postVars == <<value, posted>>
cmdVars == <<command, scopeFilterChanged, path, args, inputSource>>
logVars == <<loadErr, rawInput, fetchLog, decisionLog>>

passVars == <<pass, firstValue>>

vars == <<pc, scopeVars, flagVars, filterVars, postVars, cmdVars, logVars, passVars>>

(***************************************************************************)
(* Bounds of the model.                                                    *)
(***************************************************************************)
MaxDomainLen == 3
MaxPatternLen == 3
MaxCandidateLen == 2
MaxPatterns == 2
MaxInputLen == 4

\* characters of the candidates and patterns given to matchesPattern
MatchChars == {"a", "A", ".", "*", "\n"}

\* characters of the candidates given to ShouldAcceptDomain
CandidateChars == {"a", "A", ".", " "}

\* the patterns a loaded scope list is made of: an exact pattern, the same
\* pattern in upper case with trailing whitespace, a "*." pattern and a glob
ScopePatterns == {<<"a">>, <<"A", " ">>, <<"*", ".", "a">>, <<"a", "*">>}

\* characters of the input of handleInputAndPost
InputChars == {"a", "b", ":", " ", "\n"}

\* the input "a.com\nb.com b.com:1.2.3.4", written with a for a.com, b for
\* b.com and 1 for 1.2.3.4
ScenarioInput == <<"a", "\n", "b", " ", "b", ":", "1">>

\* all strings over chars of length at most n
Str(chars, n) == UNION {[1..k -> chars] : k \in 0..n}

(***************************************************************************)
(* Go standard library functions used by the scope code.                   *)
(***************************************************************************)
\* unicode.IsSpace on the characters of the model
IsSpace(c) == c \in {" ", "\n"}

ToLowerChar(c) == IF c = "A" THEN "a" ELSE IF c = "B" THEN "b" ELSE c

\* strings.ToLower
ToLower(s) == [i \in 1..Len(s) |-> ToLowerChar(s[i])]

RECURSIVE TrimLeft(_)
TrimLeft(s) ==
  IF s = <<>> THEN s
  ELSE IF IsSpace(Head(s)) THEN TrimLeft(Tail(s)) ELSE s

RECURSIVE TrimRight(_)
TrimRight(s) ==
  IF s = <<>> THEN s
  ELSE IF IsSpace(s[Len(s)]) THEN TrimRight(SubSeq(s, 1, Len(s) - 1)) ELSE s

\* strings.TrimSpace
TrimSpace(s) == TrimRight(TrimLeft(s))

\* strings.HasPrefix
HasPrefix(s, prefix) ==
  /\ Len(prefix) <= Len(s)
  /\ SubSeq(s, 1, Len(prefix)) = prefix

\* strings.HasSuffix
HasSuffix(s, suffix) ==
  /\ Len(suffix) <= Len(s)
  /\ SubSeq(s, Len(s) - Len(suffix) + 1, Len(s)) = suffix

\* strings.Contains
Contains(s, substr) ==
  \E i \in 0..(Len(s) - Len(substr)) : SubSeq(s, i + 1, i + Len(substr)) = substr

\* strings.ReplaceAll for a non-empty old: leftmost, non-overlapping
RECURSIVE ReplaceAll(_, _, _)
ReplaceAll(s, old, new) ==
  IF s = <<>> THEN <<>>
  ELSE IF HasPrefix(s, old)
       THEN new \o ReplaceAll(SubSeq(s, Len(old) + 1, Len(s)), old, new)
       ELSE <<Head(s)>> \o ReplaceAll(Tail(s), old, new)

\* strings.Split for a one-character separator
RECURSIVE Split(_, _)
Split(s, sep) ==
  LET hits == {i \in 1..Len(s) : s[i] = sep} IN
    IF hits = {} THEN <<s>>
    ELSE LET first == CHOOSE i \in hits : \A j \in hits : i <= j IN
           <<SubSeq(s, 1, first - 1)>> \o Split(SubSeq(s, first + 1, Len(s)), sep)

\* strings.Fields: the maximal runs of non-space characters
RECURSIVE Fields(_)
Fields(s) ==
  LET t == TrimLeft(s) IN
    IF t = <<>> THEN <<>>
    ELSE LET spaces == {i \in 1..Len(t) : IsSpace(t[i])}
             stop == IF spaces = {} THEN Len(t) + 1
                     ELSE CHOOSE i \in spaces : \A j \in spaces : i <= j
         IN <<SubSeq(t, 1, stop - 1)>> \o Fields(SubSeq(t, stop, Len(t)))

\* strings.Join
RECURSIVE Join(_, _)
Join(elems, sep) ==
  IF elems = <<>> THEN <<>>
  ELSE IF Len(elems) = 1 THEN elems[1]
  ELSE elems[1] \o sep \o Join(Tail(elems), sep)

\* the characters regexp.QuoteMeta escapes
RegexSpecial ==
  {"\\", ".", "+", "*", "?", "(", ")", "|", "[", "]", "{", "}", "^", "$"}

\* regexp.QuoteMeta that escapes nothing
QuoteMeta_Identity(s) == s

\* regexp.QuoteMeta
RECURSIVE QuoteMeta(_)
QuoteMeta(s) ==
  IF s = <<>> THEN <<>>
  ELSE (IF Head(s) \in RegexSpecial THEN <<"\\", Head(s)>> ELSE <<Head(s)>>)
       \o QuoteMeta(Tail(s))

(***************************************************************************)
(* regexp.Compile and Regexp.MatchString for the expressions the scope     *)
(* code builds: ^ and $ (without the m flag: start and end of the text),   *)
(* . (without the s flag: any character but newline), \c, literals and a   *)
(* postfix *.  A compiled expression is a sequence of nodes.               *)
(***************************************************************************)
RECURSIVE ParseRegex(_, _)
ParseRegex(re, prog) ==
  IF re = <<>> THEN [err |-> FALSE, prog |-> prog]
  ELSE LET c == Head(re) IN
    IF c = "\\" THEN
      IF Len(re) < 2 THEN [err |-> TRUE, prog |-> <<>>]
      ELSE ParseRegex(SubSeq(re, 3, Len(re)),
                      Append(prog, [op |-> "lit", c |-> re[2], star |-> FALSE]))
    ELSE IF c = "*" THEN
      IF prog = <<>> \/ prog[Len(prog)].star THEN [err |-> TRUE, prog |-> <<>>]
      ELSE ParseRegex(Tail(re),
                      [prog EXCEPT ![Len(prog)].star = TRUE])
    ELSE IF c \in {"+", "?", "(", ")", "|", "[", "]", "{", "}"} THEN
      [err |-> TRUE, prog |-> <<>>]
    ELSE ParseRegex(Tail(re),
                    Append(prog, [op |-> (IF c = "^" THEN "bol"
                                          ELSE IF c = "$" THEN "eol"
                                          ELSE IF c = "." THEN "any"
                                          ELSE "lit"),
                                  c |-> c, star |-> FALSE]))

\* regexp.Compile
Compile(re) == ParseRegex(re, <<>>)

\* does the node consume the character ch
NodeTakes(node, ch) ==
  \/ node.op = "any" /\ ch # "\n"
  \/ node.op = "lit" /\ ch = node.c

\* does prog[k..] match text from offset j on (a match may end anywhere)
RECURSIVE MatchHere(_, _, _, _)
MatchHere(prog, k, text, j) ==
  IF k > Len(prog) THEN TRUE
  ELSE LET node == prog[k] IN
    IF node.op = "bol" THEN j = 0 /\ MatchHere(prog, k + 1, text, j)
    ELSE IF node.op = "eol" THEN j = Len(text) /\ MatchHere(prog, k + 1, text, j)
    ELSE IF node.star THEN
      \E n \in 0..(Len(text) - j) :
        /\ \A m \in 1..n : NodeTakes(node, text[j + m])
        /\ MatchHere(prog, k + 1, text, j + n)
    ELSE /\ j < Len(text)
         /\ NodeTakes(node, text[j + 1])
         /\ MatchHere(prog, k + 1, text, j + 1)

\* Regexp.MatchString: the expression matches somewhere in the text
MatchString(prog, text) == \E start \in 0..Len(text) : MatchHere(prog, 1, text, start)

\* filepath.Match, a character class: p is the pattern after "[" and the
\* optional "^"; the class ends at the first "]" that follows at least one
\* item, \ escapes an item (ranges lo-hi need a "-", which is not among the
\* characters of the model and makes the pattern bad here)
RECURSIVE ParseClass(_, _)
ParseClass(p, items) ==
  IF p = <<>> THEN [ok |-> FALSE, items |-> {}, rest |-> <<>>]
  ELSE IF Head(p) = "]" THEN
    IF items = {} THEN [ok |-> FALSE, items |-> {}, rest |-> <<>>]
    ELSE [ok |-> TRUE, items |-> items, rest |-> Tail(p)]
  ELSE IF Head(p) = "-" THEN [ok |-> FALSE, items |-> {}, rest |-> <<>>]
  ELSE IF Head(p) = "\\" THEN
    IF Len(p) < 2 THEN [ok |-> FALSE, items |-> {}, rest |-> <<>>]
    ELSE ParseClass(SubSeq(p, 3, Len(p)), items \cup {p[2]})
  ELSE ParseClass(Tail(p), items \cup {Head(p)})

\* the class at the head of a pattern that starts with "["
ClassOf(pat) ==
  LET negated == Len(pat) >= 2 /\ pat[2] = "^"
      class == ParseClass(SubSeq(pat, IF negated THEN 3 ELSE 2, Len(pat)), {})
  IN [ok |-> class.ok, negated |-> negated, items |-> class.items, rest |-> class.rest]

\* filepath.Match reports ErrBadPattern: a class that is empty or not closed,
\* or a \ at the end
RECURSIVE BadPattern(_)
BadPattern(pat) ==
  IF pat = <<>> THEN FALSE
  ELSE IF Head(pat) = "\\" THEN Len(pat) < 2 \/ BadPattern(SubSeq(pat, 3, Len(pat)))
  ELSE IF Head(pat) = "[" THEN ~ClassOf(pat).ok \/ BadPattern(ClassOf(pat).rest)
  ELSE BadPattern(Tail(pat))

\* the match of a well-formed pattern: * is any sequence of non-separator
\* characters, ? is one of them, [..] is one character of the class, \ escapes
\* the next character
RECURSIVE GoodPatternMatch(_, _)
GoodPatternMatch(pat, name) ==
  IF pat = <<>> THEN name = <<>>
  ELSE IF Head(pat) = "*" THEN
    \E n \in 0..Len(name) :
      /\ \A m \in 1..n : name[m] # "/"
      /\ GoodPatternMatch(Tail(pat), SubSeq(name, n + 1, Len(name)))
  ELSE IF Head(pat) = "?" THEN
    /\ name # <<>>
    /\ Head(name) # "/"
    /\ GoodPatternMatch(Tail(pat), Tail(name))
  ELSE IF Head(pat) = "[" THEN
    /\ name # <<>>
    /\ (Head(name) \in ClassOf(pat).items) # ClassOf(pat).negated
    /\ GoodPatternMatch(ClassOf(pat).rest, Tail(name))
  ELSE IF Head(pat) = "\\" THEN
    /\ name # <<>>
    /\ Head(name) = pat[2]
    /\ GoodPatternMatch(SubSeq(pat, 3, Len(pat)), Tail(name))
  ELSE /\ name # <<>>
       /\ Head(name) = Head(pat)
       /\ GoodPatternMatch(Tail(pat), Tail(name))

\* filepath.Match with its error dropped: a bad pattern matches nothing
FilepathMatch(pat, name) == ~BadPattern(pat) /\ GoodPatternMatch(pat, name)

(***************************************************************************)
(* ScopeManager                                                            *)
(***************************************************************************)
\* strings.ToLower(strings.TrimSpace(s))
Normalize(s) == ToLower(TrimSpace(s))

\* matchesWildcard without the comparison of the candidate with the suffix
matchesWildcard_NoApex(d, p) ==
  IF HasPrefix(p, <<"*", ".">>)
  THEN LET suffix == SubSeq(p, 3, Len(p)) IN
         HasSuffix(d, <<".">> \o suffix)
  ELSE LET escapedPattern == QuoteMeta(p)
           regexPattern == <<"^">> \o ReplaceAll(escapedPattern, <<"\\", "*">>, <<".", "*">>)
                           \o <<"$">>
           regex == Compile(regexPattern)
       IN IF regex.err THEN FilepathMatch(p, d)
          ELSE MatchString(regex.prog, d)

\* matchesWildcard without the rule for patterns that start with "*."
matchesWildcard_NoSuffixRule(d, p) ==
  LET escapedPattern == QuoteMeta(p)
      regexPattern == <<"^">> \o ReplaceAll(escapedPattern, <<"\\", "*">>, <<".", "*">>)
                      \o <<"$">>
      regex == Compile(regexPattern)
  IN IF regex.err THEN FilepathMatch(p, d)
     ELSE MatchString(regex.prog, d)

matchesWildcard(d, p) ==
  IF HasPrefix(p, <<"*", ".">>)
  THEN LET suffix == SubSeq(p, 3, Len(p)) IN
         d = suffix \/ HasSuffix(d, <<".">> \o suffix)
  ELSE LET escapedPattern == QuoteMeta(p)
           regexPattern == <<"^">> \o ReplaceAll(escapedPattern, <<"\\", "*">>, <<".", "*">>)
                           \o <<"$">>
           regex == Compile(regexPattern)
       IN IF regex.err THEN FilepathMatch(p, d)
          ELSE MatchString(regex.prog, d)

\* matchesPattern with the subdomain test missing its "."
matchesPattern_SuffixNoDot(d, p) ==
  LET np == Normalize(p)
      nd == Normalize(d)
  IN IF np = nd THEN TRUE
     ELSE IF Contains(np, <<"*">>) THEN matchesWildcard(nd, np)
     ELSE IF HasSuffix(nd, np) THEN TRUE
     ELSE FALSE

\* matchesPattern with the pattern taken as it is stored
matchesPattern_RawPattern(d, p) ==
  LET np == p
      nd == Normalize(d)
  IN IF np = nd THEN TRUE
     ELSE IF Contains(np, <<"*">>) THEN matchesWildcard(nd, np)
     ELSE IF HasSuffix(nd, <<".">> \o np) THEN TRUE
     ELSE FALSE

\* matchesPattern without the implicit subdomain match
matchesPattern_ExactOnly(d, p) ==
  LET np == Normalize(p)
      nd == Normalize(d)
  IN IF np = nd THEN TRUE
     ELSE IF Contains(np, <<"*">>) THEN matchesWildcard(nd, np)
     ELSE FALSE

matchesPattern(d, p) ==
  LET np == Normalize(p)
      nd == Normalize(d)
  IN IF np = nd THEN TRUE
     ELSE IF Contains(np, <<"*">>) THEN matchesWildcard(nd, np)
     ELSE IF HasSuffix(nd, <<".">> \o np) THEN TRUE
     ELSE FALSE

NewScopeManager(company) == [InScope |-> <<>>, OutScope |-> <<>>, company |-> company]

\* IsInScope looking at the first in-scope pattern only
IsInScope_FirstOnly(m, d) == Len(m.InScope) > 0 /\ matchesPattern(d, m.InScope[1])

IsInScope(m, d) == \E i \in 1..Len(m.InScope) : matchesPattern(d, m.InScope[i])

\* IsOutOfScope never matching
IsOutOfScope_Never(m, d) == FALSE

\* IsOutOfScope asking for a match of every out-of-scope pattern
IsOutOfScope_AllPatterns(m, d) ==
  /\ Len(m.OutScope) > 0
  /\ \A i \in 1..Len(m.OutScope) : matchesPattern(d, m.OutScope[i])

IsOutOfScope(m, d) == \E i \in 1..Len(m.OutScope) : matchesPattern(d, m.OutScope[i])

\* the answers of GET /api/scope/show the model draws from: a transport
\* error, a non-200 answer, an empty body, JSON arrays and a plain-text body
ServerResponses ==
  { [kind |-> "error", status |-> 0, format |-> "text", items |-> <<>>, text |-> <<>>],
    [kind |-> "response", status |-> 500, format |-> "json",
     items |-> << <<"a">> >>, text |-> <<>>],
    [kind |-> "response", status |-> 200, format |-> "text", items |-> <<>>,
     text |-> <<"\n">>],
    [kind |-> "response", status |-> 200, format |-> "json",
     items |-> << <<"a">> >>, text |-> <<>>],
    [kind |-> "response", status |-> 200, format |-> "json",
     items |-> << <<"b">> >>, text |-> <<>>],
    [kind |-> "response", status |-> 200, format |-> "text", items |-> <<>>,
     text |-> <<"b", "\n", " ", "\n", "A", " ", "\n">>] }

\* the non-empty trimmed lines of a plain-text body
RECURSIVE TrimmedLines(_)
TrimmedLines(lines) ==
  IF lines = <<>> THEN <<>>
  ELSE (IF TrimSpace(Head(lines)) # <<>> THEN <<TrimSpace(Head(lines))>> ELSE <<>>)
       \o TrimmedLines(Tail(lines))

fetchScopeFromServer(resp) ==
  IF resp.kind = "error" THEN [patterns |-> <<>>, err |-> TRUE]
  ELSE IF resp.status # 200 THEN [patterns |-> <<>>, err |-> FALSE]
  ELSE IF resp.format = "text" /\ TrimSpace(resp.text) = <<>>
    THEN [patterns |-> <<>>, err |-> FALSE]
  ELSE IF resp.format = "json" THEN [patterns |-> resp.items, err |-> FALSE]
  ELSE [patterns |-> TrimmedLines(Split(TrimSpace(resp.text), "\n")), err |-> FALSE]

\* the reason strings of ShouldAcceptDomain
OUT_OF_SCOPE_MATCH == "domain matches out-of-scope pattern"
IN_SCOPE_MATCH == "domain matches in-scope pattern"
NO_RULES_DEFAULT_ACCEPT == "no in-scope patterns defined, accepting by default"
NO_IN_SCOPE_MATCH == "domain does not match any in-scope pattern"

\* ShouldAcceptDomain with the in-scope test before the out-of-scope test
ShouldAcceptDomain_InScopeFirst(m, d) ==
  LET nd == Normalize(d) IN
    IF IsInScope(m, nd) THEN [accept |-> TRUE, reason |-> IN_SCOPE_MATCH]
    ELSE IF IsOutOfScope(m, nd) THEN [accept |-> FALSE, reason |-> OUT_OF_SCOPE_MATCH]
    ELSE IF Len(m.InScope) = 0 THEN [accept |-> TRUE, reason |-> NO_RULES_DEFAULT_ACCEPT]
    ELSE [accept |-> FALSE, reason |-> NO_IN_SCOPE_MATCH]

\* ShouldAcceptDomain accepting by default whatever the in-scope list holds
ShouldAcceptDomain_OpenWorld(m, d) ==
  LET nd == Normalize(d) IN
    IF IsOutOfScope(m, nd) THEN [accept |-> FALSE, reason |-> OUT_OF_SCOPE_MATCH]
    ELSE IF IsInScope(m, nd) THEN [accept |-> TRUE, reason |-> IN_SCOPE_MATCH]
    ELSE [accept |-> TRUE, reason |-> NO_RULES_DEFAULT_ACCEPT]

\* ShouldAcceptDomain without the default for an empty in-scope list
ShouldAcceptDomain_ClosedWorld(m, d) ==
  LET nd == Normalize(d) IN
    IF IsOutOfScope(m, nd) THEN [accept |-> FALSE, reason |-> OUT_OF_SCOPE_MATCH]
    ELSE IF IsInScope(m, nd) THEN [accept |-> TRUE, reason |-> IN_SCOPE_MATCH]
    ELSE [accept |-> FALSE, reason |-> NO_IN_SCOPE_MATCH]

ShouldAcceptDomain(m, d) ==
  LET nd == Normalize(d) IN
    IF IsOutOfScope(m, nd) THEN [accept |-> FALSE, reason |-> OUT_OF_SCOPE_MATCH]
    ELSE IF IsInScope(m, nd) THEN [accept |-> TRUE, reason |-> IN_SCOPE_MATCH]
    ELSE IF Len(m.InScope) = 0 THEN [accept |-> TRUE, reason |-> NO_RULES_DEFAULT_ACCEPT]
    ELSE [accept |-> FALSE, reason |-> NO_IN_SCOPE_MATCH]

\* ShouldAcceptDomain with a receiver that remembers the candidates it rejected
scopeAfterDecision_Remember(m, d) ==
  IF ShouldAcceptDomain(m, d).accept THEN m
  ELSE [m EXCEPT !.OutScope = Append(@, Normalize(d))]

\* the ScopeManager after ShouldAcceptDomain(d): IsOutOfScope, IsInScope,
\* matchesPattern and matchesWildcard only read the receiver
scopeAfterDecision(m, d) == m

NoDecision == [accept |-> FALSE, reason |-> "none"]

NoPost == [sent |-> FALSE]

\* handleInputAndPost called outside of a command
NoCommand == [resource |-> "", action |-> ""]

\* handleInputAndPost has not looked at its arguments
NoSource == [kind |-> "none", name |-> <<>>]


\* the variables of handleInputAndPost, in the specifications that do not run it
PipelineIdle ==
  /\ enableScopeFilter = TRUE
  /\ allowOutOfScope = FALSE
  /\ key = "domains"
  /\ value = <<>>
  /\ domainsInput = <<>>
  /\ domains = <<>>
  /\ idx = 0
  /\ acceptedDomains = <<>>
  /\ rejectedCount = 0
  /\ posted = NoPost
  /\ command = NoCommand
  /\ scopeFilterChanged = FALSE
  /\ path = ""
  /\ args = <<>>
  /\ inputSource = NoSource
  /\ pass = 1
  /\ firstValue = <<>>
  /\ loadErr = FALSE
  /\ rawInput = <<>>
  /\ fetchLog = <<>>
  /\ decisionLog = <<>>

(***************************************************************************)
(* SpecMatch: one call of matchesPattern on every candidate and pattern    *)
(* within the bounds.                                                      *)
(***************************************************************************)
MatchInit ==
  /\ pc = "match"
  /\ domain \in Str(MatchChars, MaxDomainLen)
  /\ pattern \in Str(MatchChars, MaxPatternLen)
  /\ matched = FALSE
  /\ sm = NewScopeManager("acme")
  /\ decision = NoDecision
  /\ PipelineIdle

MatchesPatternCall ==
  /\ pc = "match"
  /\ matched' = matchesPattern(domain, pattern)
  /\ pc' = "matched"
  /\ UNCHANGED <<domain, pattern, sm, decision, flagVars, filterVars, postVars,
                 cmdVars, logVars, passVars>>

MatchNext == MatchesPatternCall

SpecMatch == MatchInit /\ [][MatchNext]_vars

(***************************************************************************)
(* SpecStar: matchesPattern on patterns that start with "*." and have a    *)
(* further "*" in their suffix.                                            *)
(***************************************************************************)
MaxStarSuffixLen == 3

MaxStarDomainLen == 4

StarChars == {"a", "*", "."}

\* the suffixes with a "*" in them
StarSuffixes == {s \in Str(StarChars, MaxStarSuffixLen) : Contains(s, <<"*">>)}

\* the pattern "*.a.*.com" and three candidates for it: "a.*.com",
\* "x.a.*.com" and "x.a.b.com"
StarScenarioPattern == <<"*", ".", "a", ".", "*", ".", "c", "o", "m">>

StarScenarioDomains ==
  { <<"a", ".", "*", ".", "c", "o", "m">>,
    <<"x", ".", "a", ".", "*", ".", "c", "o", "m">>,
    <<"x", ".", "a", ".", "b", ".", "c", "o", "m">> }

StarInit ==
  /\ pc = "match"
  /\ pattern \in {<<"*", ".">> \o s : s \in StarSuffixes} \cup {StarScenarioPattern}
  /\ domain \in Str(StarChars \cup {"b"}, MaxStarDomainLen) \cup StarScenarioDomains
  /\ matched = FALSE
  /\ sm = NewScopeManager("acme")
  /\ decision = NoDecision
  /\ PipelineIdle

SpecStar == StarInit /\ [][MatchNext]_vars

(***************************************************************************)
(* SpecDecide: one call of ShouldAcceptDomain on a loaded ScopeManager,    *)
(* for every candidate and every pair of scope lists within the bounds.    *)
(***************************************************************************)
DecideInit ==
  /\ pc = "decide"
  /\ domain \in Str(CandidateChars, MaxCandidateLen)
  /\ pattern = <<>>
  /\ matched = FALSE
  /\ sm \in [InScope : Str(ScopePatterns, MaxPatterns),
             OutScope : Str(ScopePatterns, MaxPatterns),
             company : {"acme"}]
  /\ decision = NoDecision
  /\ PipelineIdle

ShouldAcceptDomainCall ==
  /\ pc = "decide"
  /\ decision' = ShouldAcceptDomain(sm, domain)
  /\ sm' = scopeAfterDecision(sm, domain)
  /\ pc' = "decided"
  /\ UNCHANGED <<domain, pattern, matched, flagVars, filterVars, postVars,
                 cmdVars, logVars, passVars>>

DecideNext == ShouldAcceptDomainCall

SpecDecide == DecideInit /\ [][DecideNext]_vars

(***************************************************************************)
(* SpecAcme: ShouldAcceptDomain on the scope of the acme scenario,         *)
(* inScope = ["*." + s] and outScope = [x + "." + s] for a domain s and a  *)
(* label x.                                                                *)
(***************************************************************************)
MaxAcmeDomainLen == 5

AcmeChars == {"a", "b", "."}

\* the domains s and the labels x of the scenario
AcmeSuffixes == Str(AcmeChars, 2) \ {<<>>}

AcmeLabels == {<<"a">>, <<"b">>, <<"a", "b">>}

AcmeScope(s, x) ==
  [InScope |-> << <<"*", ".">> \o s >>,
   OutScope |-> << x \o <<".">> \o s >>,
   company |-> "acme"]

AcmeInit ==
  /\ pc = "decide"
  /\ domain \in Str(AcmeChars, MaxAcmeDomainLen)
  /\ pattern = <<>>
  /\ matched = FALSE
  /\ \E s \in AcmeSuffixes : \E x \in AcmeLabels : sm = AcmeScope(s, x)
  /\ decision = NoDecision
  /\ PipelineIdle

SpecAcme == AcmeInit /\ [][DecideNext]_vars

(***************************************************************************)
(* Spec: one run of handleInputAndPost, with filterDomainsBeforePost and   *)
(* LoadScope, for every input, flag setting and pair of server answers     *)
(* within the bounds.                                                      *)
(***************************************************************************)
\* the inputs of handleInputAndPost
RawInputs == Str(InputChars, MaxInputLen) \cup {ScenarioInput}

\* the whole token taken as the key
cleanDomainOf_Whole(token) == token

\* filterDomainsBeforePost: the key a token is decided by
cleanDomainOf(token) == Split(token, ":")[1]

\* the key kept in place of the token
acceptedEntry_Clean(token, cleanDomain) == cleanDomain

\* filterDomainsBeforePost: what an accepted token adds to acceptedDomains
acceptedEntry(token, cleanDomain) == token

\* handleInputAndPost with a condition that leaves out allowOutOfScope
shouldFilter_IgnoreAllow(enable, allow, dataKey) == enable /\ dataKey = "domains"

\* handleInputAndPost with a condition that leaves out the data key
shouldFilter_AnyKey(enable, allow, dataKey) == enable /\ ~allow

\* handleInputAndPost: is the input passed through the scope filter
shouldFilter(enable, allow, dataKey) == enable /\ ~allow /\ dataKey = "domains"

\* handleInputAndPost without the check for an empty filtered input
allFilteredOut_Never(v) == FALSE

\* handleInputAndPost: is nothing left of the filtered input
allFilteredOut(v) == TrimSpace(v) = <<>>

\* LoadScope: the scope type of its first and of its second fetch
inScopeType == "in"

\* LoadScope asking for the in-scope list a second time
outScopeType_In == "in"

outScopeType == "out"

\* LoadScope returning the error of its last fetch instead of nil
loadScopeResult_Propagate(err) == err

\* filterDomainsBeforePost with a loop that leaves out the first token
firstIndex_Skip(tokens) == IF tokens = <<>> THEN 1 ELSE 2

\* filterDomainsBeforePost: the index at which the range loop over the tokens
\* starts
firstIndex(tokens) == 1

\* LoadScope: the error it returns, given the error of its last fetch
loadScopeResult(err) == FALSE

Init ==
  /\ pc = "start"
  /\ domain = <<>>
  /\ pattern = <<>>
  /\ matched = FALSE
  /\ sm = NewScopeManager("acme")
  /\ decision = NoDecision
  /\ enableScopeFilter \in BOOLEAN
  /\ allowOutOfScope \in BOOLEAN
  /\ key \in {"domains", "ips", "asns"}
  /\ value = <<>>
  /\ domainsInput = <<>>
  /\ domains = <<>>
  /\ idx = 0
  /\ acceptedDomains = <<>>
  /\ rejectedCount = 0
  /\ posted = NoPost
  /\ command = NoCommand
  /\ scopeFilterChanged = FALSE
  /\ path = ""
  /\ args = <<>>
  /\ inputSource = NoSource
  /\ pass = 1
  /\ firstValue = <<>>
  /\ loadErr = FALSE
  /\ rawInput = <<>>
  /\ fetchLog = <<>>
  /\ decisionLog = <<>>

\* handleInputAndPost: the input is read from stdin, a file or the arguments
ReadInput ==
  /\ pc = "start"
  /\ \E v \in RawInputs : value' = v /\ rawInput' = v
  /\ pc' = "gate"
  /\ UNCHANGED <<scopeVars, flagVars, filterVars, posted, cmdVars, loadErr, fetchLog,
                 decisionLog, passVars>>

\* handleInputAndPost: no argument, or a file that cannot be read: os.Exit(1)
InputError ==
  /\ pc = "start"
  /\ pc' = "exit"
  /\ UNCHANGED <<scopeVars, flagVars, filterVars, postVars, cmdVars, logVars, passVars>>

\* handleInputAndPost: the condition of the scope filter; on the filtering
\* path filterDomainsBeforePost starts with a new ScopeManager
ApplyScopeFilter ==
  /\ pc = "gate"
  /\ IF shouldFilter(enableScopeFilter, allowOutOfScope, key)
     THEN /\ pc' = "fetch_in"
          /\ domainsInput' = value
          /\ sm' = NewScopeManager(sm.company)
     ELSE /\ pc' = "post"
          /\ UNCHANGED <<domainsInput, sm>>
  /\ UNCHANGED <<domain, pattern, matched, decision, flagVars, domains, idx,
                 acceptedDomains, rejectedCount, postVars, cmdVars, logVars, passVars>>

\* LoadScope: the in-scope fetch
LoadInScope ==
  /\ pc = "fetch_in"
  /\ \E resp \in ServerResponses :
       LET inscope == fetchScopeFromServer(resp) IN
         /\ sm' = IF ~inscope.err THEN [sm EXCEPT !.InScope = inscope.patterns] ELSE sm
         /\ fetchLog' = Append(fetchLog, [scopeType |-> inScopeType, resp |-> resp])
  /\ pc' = "fetch_out"
  /\ UNCHANGED <<domain, pattern, matched, decision, flagVars, filterVars, postVars,
                 cmdVars, loadErr, rawInput, decisionLog, passVars>>

\* LoadScope: the out-of-scope fetch and the return
LoadOutScope ==
  /\ pc = "fetch_out"
  /\ \E resp \in ServerResponses :
       LET outscope == fetchScopeFromServer(resp) IN
         /\ sm' = IF ~outscope.err THEN [sm EXCEPT !.OutScope = outscope.patterns] ELSE sm
         /\ fetchLog' = Append(fetchLog, [scopeType |-> outScopeType, resp |-> resp])
         /\ loadErr' = loadScopeResult(outscope.err)
  /\ pc' = "parse"
  /\ UNCHANGED <<domain, pattern, matched, decision, flagVars, filterVars, postVars,
                 cmdVars, rawInput, decisionLog, passVars>>

\* filterDomainsBeforePost: when LoadScope reports an error the input is
\* returned as it is, otherwise it is cut into tokens
ParseDomains ==
  /\ pc = "parse"
  /\ IF loadErr
     THEN /\ value' = domainsInput
          /\ pc' = "filtered"
          /\ UNCHANGED <<domains, acceptedDomains, rejectedCount, idx>>
     ELSE /\ domains' = Fields(ReplaceAll(domainsInput, <<"\n">>, <<" ">>))
          /\ acceptedDomains' = <<>>
          /\ rejectedCount' = 0
          /\ idx' = firstIndex(domains')
          /\ pc' = "loop"
          /\ UNCHANGED value
  /\ UNCHANGED <<scopeVars, flagVars, domainsInput, posted, cmdVars, logVars, passVars>>

\* filterDomainsBeforePost: one iteration of the range loop
FilterDomain ==
  /\ pc = "loop"
  /\ idx <= Len(domains)
  /\ LET token == TrimSpace(domains[idx]) IN
       IF token = <<>>
       THEN UNCHANGED <<domain, decision, sm, acceptedDomains, rejectedCount,
                        decisionLog>>
       ELSE LET cleanDomain == cleanDomainOf(token)
                verdict == ShouldAcceptDomain(sm, cleanDomain)
            IN /\ domain' = cleanDomain
               /\ decision' = verdict
               /\ sm' = scopeAfterDecision(sm, cleanDomain)
               /\ decisionLog' = Append(decisionLog,
                                        [candidate |-> cleanDomain, decision |-> verdict])
               /\ IF verdict.accept
                  THEN /\ acceptedDomains' =
                            Append(acceptedDomains, acceptedEntry(token, cleanDomain))
                       /\ UNCHANGED rejectedCount
                  ELSE /\ rejectedCount' = rejectedCount + 1
                       /\ UNCHANGED acceptedDomains
  /\ idx' = idx + 1
  /\ UNCHANGED <<pc, pattern, matched, flagVars, domainsInput, domains, postVars,
                 cmdVars, loadErr, rawInput, fetchLog, passVars>>

\* filterDomainsBeforePost: the loop is over, the accepted tokens are returned
\* joined by spaces ("" when there are none) and assigned to value
FilterReturn ==
  /\ pc = "loop"
  /\ idx > Len(domains)
  /\ value' = IF Len(acceptedDomains) = 0 THEN <<>> ELSE Join(acceptedDomains, <<" ">>)
  /\ pc' = "filtered"
  /\ UNCHANGED <<scopeVars, flagVars, filterVars, posted, cmdVars, logVars, passVars>>

\* handleInputAndPost: nothing is left after filtering, no API call is made
AllFilteredOut ==
  /\ pc = "filtered"
  /\ allFilteredOut(value)
  /\ pc' = "return"
  /\ UNCHANGED <<scopeVars, flagVars, filterVars, postVars, cmdVars, logVars, passVars>>

\* handleInputAndPost: the body is built and handed to call("POST", ...)
Post ==
  /\ \/ pc = "post"
     \/ pc = "filtered" /\ ~allFilteredOut(value)
  /\ posted' = [sent |-> TRUE, path |-> path, company |-> sm.company, key |-> key,
                value |-> value]
  /\ pc' = "posted"
  /\ UNCHANGED <<scopeVars, flagVars, filterVars, value, cmdVars, logVars, passVars>>

Next ==
  \/ ReadInput
  \/ InputError
  \/ ApplyScopeFilter
  \/ LoadInScope
  \/ LoadOutScope
  \/ ParseDomains
  \/ FilterDomain
  \/ FilterReturn
  \/ AllFilteredOut
  \/ Post

Spec == Init /\ [][Next]_vars

(***************************************************************************)
(* SpecMeta: the loop of filterDomainsBeforePost on a scope that was       *)
(* loaded with one pattern made of regular-expression metacharacters.      *)
(***************************************************************************)
MaxMetaLen == 3

MetaChars == {"a", "*", ".", "[", "(", "+", "?", "\\"}

MetaPatterns == Str(MetaChars, MaxMetaLen)

\* inputs whose tokens contain the metacharacters
MetaInputs ==
  { <<"(", "a", " ", "a">>,
    <<"a", "+", " ", "?">>,
    <<"\\", "a", "\n", "[">>,
    <<".", "a", " ", "a", "a">>,
    <<"[", "a", "]">>,
    <<"a">> }

\* a JSON answer of the server that lists the given patterns
JSONResponse(items) ==
  [kind |-> "response", status |-> 200, format |-> "json", items |-> items, text |-> <<>>]

\* the state after LoadScope: one of the two lists holds one pattern
MetaInit ==
  /\ pc = "parse"
  /\ domain = <<>>
  /\ pattern = <<>>
  /\ matched = FALSE
  /\ decision = NoDecision
  /\ enableScopeFilter = TRUE
  /\ allowOutOfScope = FALSE
  /\ key = "domains"
  /\ \E p \in MetaPatterns : \E inItems \in {<<>>, <<p>>} :
       LET outItems == IF inItems = <<>> THEN <<p>> ELSE <<>> IN
         /\ sm = [InScope |-> inItems, OutScope |-> outItems, company |-> "acme"]
         /\ fetchLog = << [scopeType |-> inScopeType, resp |-> JSONResponse(inItems)],
                          [scopeType |-> outScopeType, resp |-> JSONResponse(outItems)] >>
  /\ rawInput \in MetaInputs
  /\ value = rawInput
  /\ domainsInput = rawInput
  /\ domains = <<>>
  /\ idx = 0
  /\ acceptedDomains = <<>>
  /\ rejectedCount = 0
  /\ posted = NoPost
  /\ command = NoCommand
  /\ scopeFilterChanged = FALSE
  /\ path = ""
  /\ args = <<>>
  /\ inputSource = NoSource
  /\ pass = 1
  /\ firstValue = <<>>
  /\ loadErr = FALSE
  /\ decisionLog = <<>>

MetaNext ==
  \/ ParseDomains
  \/ FilterDomain
  \/ FilterReturn

SpecMeta == MetaInit /\ [][MetaNext]_vars

(***************************************************************************)
(* SpecCmd: the Run functions of the commands that call                    *)
(* handleInputAndPost, followed by handleInputAndPost itself.              *)
(***************************************************************************)
\* the add and remove subcommands of createCRUDCommand and the input
\* subcommands of createScopeCommand
CRUDCommands == [resource : {"domain", "ip", "asn"}, action : {"add", "remove"}]

ScopeCommands ==
  [resource : {"scope"},
   action : {"inscope", "outscope", "remove-inscope", "remove-outscope"}]

\* createCompanyCommands: the data key of a resource
dataKeyOf(resource) ==
  IF resource = "domain" THEN "domains"
  ELSE IF resource = "ip" THEN "ips"
  ELSE "asns"

\* createCompanyCommands and createScopeCommand: the endpoint of a command
endpointOf(cmd) ==
  IF cmd.resource = "domain"
    THEN (IF cmd.action = "add" THEN "/api/domains/add" ELSE "/api/domains/remove")
  ELSE IF cmd.resource = "ip"
    THEN (IF cmd.action = "add" THEN "/api/ip" ELSE "/api/ip/remove")
  ELSE IF cmd.resource = "asn"
    THEN (IF cmd.action = "add" THEN "/api/asn/add" ELSE "/api/asn/remove")
  ELSE IF cmd.action = "inscope" THEN "/api/scope/in"
  ELSE IF cmd.action = "outscope" THEN "/api/scope/out"
  ELSE "/api/scope/remove"

\* the inputs given to a command
CmdInputs ==
  { <<"a">>,
    <<"b", " ", "a", ":", "1">>,
    <<"a", "\n", "b">>,
    <<" ">> }

\* the state when cobra has parsed the command line: --scope-filter is true
\* unless it was given as false, --allow-out-of-scope is false unless given
CmdInit ==
  /\ pc = "run"
  /\ domain = <<>>
  /\ pattern = <<>>
  /\ matched = FALSE
  /\ sm = NewScopeManager("acme")
  /\ decision = NoDecision
  /\ command \in CRUDCommands \cup ScopeCommands
  /\ scopeFilterChanged \in BOOLEAN
  /\ enableScopeFilter \in (IF scopeFilterChanged THEN BOOLEAN ELSE {TRUE})
  /\ allowOutOfScope \in BOOLEAN
  /\ key = ""
  /\ path = ""
  /\ args = <<>>
  /\ inputSource = NoSource
  /\ pass = 1
  /\ firstValue = <<>>
  /\ value = <<>>
  /\ domainsInput = <<>>
  /\ domains = <<>>
  /\ idx = 0
  /\ acceptedDomains = <<>>
  /\ rejectedCount = 0
  /\ posted = NoPost
  /\ loadErr = FALSE
  /\ rawInput = <<>>
  /\ fetchLog = <<>>
  /\ decisionLog = <<>>

\* createScopeCommand with a Run that leaves the flag as it is
scopeCommandFilter_Keep(changed, enable) == enable

\* createScopeCommand: enableScopeFilter as the Run of a scope-editing command
\* leaves it, given cmd.Flags().Changed("scope-filter") and its value
scopeCommandFilter(changed, enable) == IF ~changed THEN FALSE ELSE enable

\* createCRUDCommand: Run of an add or remove subcommand
RunCRUDCommand ==
  /\ pc = "run"
  /\ command \in CRUDCommands
  /\ path' = endpointOf(command)
  /\ key' = dataKeyOf(command.resource)
  /\ pc' = "start"
  /\ UNCHANGED <<scopeVars, enableScopeFilter, allowOutOfScope, filterVars, postVars,
                 command, scopeFilterChanged, args, inputSource, logVars, passVars>>

\* createScopeCommand: Run of inscope, outscope, remove-inscope, remove-outscope
RunScopeCommand ==
  /\ pc = "run"
  /\ command \in ScopeCommands
  /\ enableScopeFilter' = scopeCommandFilter(scopeFilterChanged, enableScopeFilter)
  /\ path' = endpointOf(command)
  /\ key' = "domains"
  /\ pc' = "start"
  /\ UNCHANGED <<scopeVars, allowOutOfScope, filterVars, postVars, command,
                 scopeFilterChanged, args, inputSource, logVars, passVars>>

\* handleInputAndPost: the input of a command is read
ReadCommandInput ==
  /\ pc = "start"
  /\ \E v \in CmdInputs : value' = v /\ rawInput' = v
  /\ pc' = "gate"
  /\ UNCHANGED <<scopeVars, flagVars, filterVars, posted, cmdVars, loadErr, fetchLog,
                 decisionLog, passVars>>

CmdNext ==
  \/ RunCRUDCommand
  \/ RunScopeCommand
  \/ ReadCommandInput
  \/ InputError
  \/ ApplyScopeFilter
  \/ LoadInScope
  \/ LoadOutScope
  \/ ParseDomains
  \/ FilterDomain
  \/ FilterReturn
  \/ AllFilteredOut
  \/ Post

SpecCmd == CmdInit /\ [][CmdNext]_vars

(***************************************************************************)
(* SpecTwice: filterDomainsBeforePost on an input, and then once more on   *)
(* what it returned, with the scope as it was loaded.                      *)
(***************************************************************************)
MaxTwiceLen == 3

TwiceInputs == Str(InputChars, MaxTwiceLen) \cup {ScenarioInput}

\* handleInputAndPost has read its input, with the flags that let it filter
TwiceInit ==
  /\ pc = "gate"
  /\ domain = <<>>
  /\ pattern = <<>>
  /\ matched = FALSE
  /\ sm = NewScopeManager("acme")
  /\ decision = NoDecision
  /\ enableScopeFilter = TRUE
  /\ allowOutOfScope = FALSE
  /\ key = "domains"
  /\ rawInput \in TwiceInputs
  /\ value = rawInput
  /\ domainsInput = <<>>
  /\ domains = <<>>
  /\ idx = 0
  /\ acceptedDomains = <<>>
  /\ rejectedCount = 0
  /\ posted = NoPost
  /\ command = NoCommand
  /\ scopeFilterChanged = FALSE
  /\ path = ""
  /\ args = <<>>
  /\ inputSource = NoSource
  /\ pass = 1
  /\ firstValue = <<>>
  /\ loadErr = FALSE
  /\ fetchLog = <<>>
  /\ decisionLog = <<>>

\* the body of filterDomainsBeforePost after LoadScope, run again on the
\* value the first run returned
FilterAgain ==
  /\ pc = "filtered"
  /\ pass = 1
  /\ firstValue' = value
  /\ domainsInput' = value
  /\ pass' = 2
  /\ pc' = "parse"
  /\ UNCHANGED <<scopeVars, flagVars, domains, idx, acceptedDomains, rejectedCount,
                 postVars, cmdVars, logVars>>

TwiceNext ==
  \/ ApplyScopeFilter
  \/ LoadInScope
  \/ LoadOutScope
  \/ ParseDomains
  \/ FilterDomain
  \/ FilterReturn
  \/ FilterAgain

SpecTwice == TwiceInit /\ [][TwiceNext]_vars

(***************************************************************************)
(* SpecInput: how handleInputAndPost takes its input from its arguments,   *)
(* for commands whose input is not filtered.                               *)
(***************************************************************************)
MaxArgs == 2

\* the arguments of the model: "-", "@f", "@", "f.txt", "a", "b"
ArgPool ==
  { <<"-">>, <<"@", "f">>, <<"@">>, <<"f", ".", "t", "x", "t">>, <<"a">>, <<"b">> }

ArgLists == Str(ArgPool, MaxArgs)

\* what standard input or a file may hold
InputContents == { <<>>, <<"a">>, <<"a", "\n", "b">> }

\* strings.TrimPrefix
TrimPrefix(s, prefix) ==
  IF HasPrefix(s, prefix) THEN SubSeq(s, Len(prefix) + 1, Len(s)) ELSE s

\* handleInputAndPost: the second case of the switch
isFileArgument(arg) == HasPrefix(arg, <<"@">>) \/ HasSuffix(arg, <<".", "t", "x", "t">>)

InputInit ==
  /\ pc = "start"
  /\ domain = <<>>
  /\ pattern = <<>>
  /\ matched = FALSE
  /\ sm = NewScopeManager("acme")
  /\ decision = NoDecision
  /\ command \in {[resource |-> "ip", action |-> "add"],
                  [resource |-> "asn", action |-> "remove"]}
  /\ scopeFilterChanged = FALSE
  /\ enableScopeFilter = TRUE
  /\ allowOutOfScope = FALSE
  /\ key = dataKeyOf(command.resource)
  /\ path = endpointOf(command)
  /\ args = <<>>
  /\ inputSource = NoSource
  /\ pass = 1
  /\ firstValue = <<>>
  /\ value = <<>>
  /\ domainsInput = <<>>
  /\ domains = <<>>
  /\ idx = 0
  /\ acceptedDomains = <<>>
  /\ rejectedCount = 0
  /\ posted = NoPost
  /\ loadErr = FALSE
  /\ rawInput = <<>>
  /\ fetchLog = <<>>
  /\ decisionLog = <<>>

\* handleInputAndPost: len(args) < 1, os.Exit(1)
NoArguments ==
  /\ pc = "start"
  /\ args' = <<>>
  /\ inputSource' = [kind |-> "none", name |-> <<>>]
  /\ pc' = "exit"
  /\ UNCHANGED <<scopeVars, flagVars, filterVars, postVars, command, scopeFilterChanged,
                 path, logVars, passVars>>

\* handleInputAndPost: args[0] == "-", the input is all of standard input
ReadStdin ==
  /\ pc = "start"
  /\ \E a \in ArgLists : \E content \in InputContents :
       /\ Len(a) >= 1
       /\ a[1] = <<"-">>
       /\ args' = a
       /\ value' = content
       /\ rawInput' = content
  /\ inputSource' = [kind |-> "stdin", name |-> <<>>]
  /\ pc' = "gate"
  /\ UNCHANGED <<scopeVars, flagVars, filterVars, posted, command, scopeFilterChanged,
                 path, loadErr, fetchLog, decisionLog, passVars>>

\* handleInputAndPost: args[0] has the prefix "@" or the suffix ".txt", the
\* input is the content of the file named by args[0] without its "@"
ReadFile ==
  /\ pc = "start"
  /\ \E a \in ArgLists : \E content \in InputContents :
       /\ Len(a) >= 1
       /\ a[1] # <<"-">>
       /\ isFileArgument(a[1])
       /\ TrimPrefix(a[1], <<"@">>) # <<>>
       /\ args' = a
       /\ value' = content
       /\ rawInput' = content
       /\ inputSource' = [kind |-> "file", name |-> TrimPrefix(a[1], <<"@">>)]
  /\ pc' = "gate"
  /\ UNCHANGED <<scopeVars, flagVars, filterVars, posted, command, scopeFilterChanged,
                 path, loadErr, fetchLog, decisionLog, passVars>>

\* handleInputAndPost: the file cannot be read, os.Exit(1)
ReadFileError ==
  /\ pc = "start"
  /\ \E a \in ArgLists :
       /\ Len(a) >= 1
       /\ a[1] # <<"-">>
       /\ isFileArgument(a[1])
       /\ args' = a
       /\ inputSource' = [kind |-> "file", name |-> TrimPrefix(a[1], <<"@">>)]
  /\ pc' = "exit"
  /\ UNCHANGED <<scopeVars, flagVars, filterVars, postVars, command, scopeFilterChanged,
                 path, logVars, passVars>>

\* handleInputAndPost: the default case, the arguments joined by spaces
ReadArguments ==
  /\ pc = "start"
  /\ \E a \in ArgLists :
       /\ Len(a) >= 1
       /\ a[1] # <<"-">>
       /\ ~isFileArgument(a[1])
       /\ args' = a
       /\ value' = Join(a, <<" ">>)
       /\ rawInput' = Join(a, <<" ">>)
  /\ inputSource' = [kind |-> "args", name |-> <<>>]
  /\ pc' = "gate"
  /\ UNCHANGED <<scopeVars, flagVars, filterVars, posted, command, scopeFilterChanged,
                 path, loadErr, fetchLog, decisionLog, passVars>>

InputNext ==
  \/ NoArguments
  \/ ReadStdin
  \/ ReadFile
  \/ ReadFileError
  \/ ReadArguments
  \/ ApplyScopeFilter
  \/ Post

SpecInput == InputInit /\ [][InputNext]_vars

(***************************************************************************)
(* Properties of matchesPattern, checked under SpecMatch.                  *)
(***************************************************************************)
\* the call of matchesPattern has returned
MatchReturned == pc = "matched"

\* the glob reading of a pattern: * stands for any sequence of characters,
\* every other character for itself, and the whole name must be covered
RECURSIVE GlobMatch(_, _)
GlobMatch(pat, name) ==
  IF pat = <<>> THEN name = <<>>
  ELSE IF Head(pat) = "*" THEN
    \E n \in 0..Len(name) : GlobMatch(Tail(pat), SubSeq(name, n + 1, Len(name)))
  ELSE /\ name # <<>>
       /\ Head(name) = Head(pat)
       /\ GlobMatch(Tail(pat), Tail(name))

\* C4: for a pattern that is "*." followed by a suffix s once it is trimmed and
\* lower-cased, matchesPattern returns true exactly when the trimmed,
\* lower-cased candidate equals s or ends with "." followed by s.
C4_WildcardPrefix ==
  (MatchReturned /\ HasPrefix(Normalize(pattern), <<"*", ".">>)) =>
    LET s == SubSeq(Normalize(pattern), 3, Len(Normalize(pattern)))
        d == Normalize(domain)
    IN matched <=> (d = s \/ HasSuffix(d, <<".">> \o s))

\* C4 witness: "*.a" has matched the apex "a", and elsewhere a candidate that
\* ends with the suffix but not with "." and the suffix was refused.
C4_Witness ==
  /\ MatchReturned
  /\ Normalize(pattern) = <<"*", ".", "a">>
  /\ \/ domain = <<"a">> /\ matched
     \/ domain = <<"A", ".", "a">> /\ matched
     \/ domain = <<"a", "a">> /\ ~matched

\* C5: for a pattern without "*", matchesPattern returns true exactly when the
\* trimmed, lower-cased candidate equals the trimmed, lower-cased pattern or
\* ends with "." followed by it.
C5_ExactOrImplicitSuffix ==
  (MatchReturned /\ ~Contains(pattern, <<"*">>)) =>
    LET p == Normalize(pattern)
        d == Normalize(domain)
    IN matched <=> (d = p \/ HasSuffix(d, <<".">> \o p))

\* C5 witness: the pattern "a" has matched itself and the subdomain "a.a", and
\* has refused "aa".
C5_Witness ==
  /\ MatchReturned
  /\ pattern = <<"a">>
  /\ \/ domain = <<"a">> /\ matched
     \/ domain = <<"a", ".", "a">> /\ matched
     \/ domain = <<"a", "a">> /\ ~matched

\* C6: a pattern that is empty once trimmed matches no candidate other than
\* the empty one.
C6_EmptyPatternMatchesOnlyEmpty ==
  (MatchReturned /\ Normalize(pattern) = <<>> /\ matched) => Normalize(domain) = <<>>

\* C7: for a pattern with a "*" that does not start with "*.", matchesPattern
\* returns true exactly when the whole trimmed, lower-cased candidate matches
\* the pattern read as a glob whose "*" stands for any sequence of characters.
C7_GeneralWildcardIsGlob ==
  (MatchReturned /\ Contains(Normalize(pattern), <<"*">>)
     /\ ~HasPrefix(Normalize(pattern), <<"*", ".">>)) =>
    (matched <=> GlobMatch(Normalize(pattern), Normalize(domain)))

(***************************************************************************)
(* Properties of ShouldAcceptDomain, checked under SpecDecide.             *)
(***************************************************************************)
\* the call of ShouldAcceptDomain has returned
Decided == pc = "decided"

\* the trimmed, lower-cased candidate matches a pattern of the list
MatchesSome(d, patterns) ==
  \E i \in 1..Len(patterns) : matchesPattern(Normalize(d), patterns[i])

\* the scope lists with every pattern trimmed and lower-cased
NormalizedScope(m) ==
  [m EXCEPT !.InScope = [i \in 1..Len(m.InScope) |-> Normalize(m.InScope[i])],
            !.OutScope = [i \in 1..Len(m.OutScope) |-> Normalize(m.OutScope[i])]]

\* C1: a candidate that matches an out-of-scope pattern is rejected with
\* OUT_OF_SCOPE_MATCH, whatever the in-scope list contains.
C1_OutOfScopePrecedence ==
  (Decided /\ MatchesSome(domain, sm.OutScope)) =>
    decision = [accept |-> FALSE, reason |-> OUT_OF_SCOPE_MATCH]

\* C1 witness: the candidate matches an in-scope and an out-of-scope pattern
\* and has been rejected as out of scope.
C1_Witness ==
  /\ Decided
  /\ MatchesSome(domain, sm.OutScope)
  /\ MatchesSome(domain, sm.InScope)
  /\ decision.reason = OUT_OF_SCOPE_MATCH

\* C2: with a non-empty in-scope list, a candidate that matches no out-of-scope
\* and no in-scope pattern is rejected with NO_IN_SCOPE_MATCH.
C2_ClosedWorld ==
  (Decided /\ Len(sm.InScope) > 0 /\ ~MatchesSome(domain, sm.OutScope)
     /\ ~MatchesSome(domain, sm.InScope)) =>
    decision = [accept |-> FALSE, reason |-> NO_IN_SCOPE_MATCH]

\* C2 witness: inScope = ["*.a"], the candidate "aa" matches nothing and has
\* been rejected.
C2_Witness ==
  /\ Decided
  /\ sm.InScope = << <<"*", ".", "a">> >>
  /\ domain = <<"a", "a">>
  /\ ~MatchesSome(domain, sm.OutScope)
  /\ decision.reason = NO_IN_SCOPE_MATCH

\* C3: with an empty in-scope list, a candidate that matches no out-of-scope
\* pattern is accepted with NO_RULES_DEFAULT_ACCEPT.
C3_DefaultAccept ==
  (Decided /\ Len(sm.InScope) = 0 /\ ~MatchesSome(domain, sm.OutScope)) =>
    decision = [accept |-> TRUE, reason |-> NO_RULES_DEFAULT_ACCEPT]

\* C3 witness: no in-scope pattern, a non-empty out-of-scope list the candidate
\* does not match, and the candidate has been accepted by default.
C3_Witness ==
  /\ Decided
  /\ sm.InScope = <<>>
  /\ sm.OutScope # <<>>
  /\ domain # <<>>
  /\ decision = [accept |-> TRUE, reason |-> NO_RULES_DEFAULT_ACCEPT]

\* C8: the decision for a candidate is the decision for its trimmed,
\* lower-cased form, and it is the decision taken with every pattern replaced
\* by its trimmed, lower-cased form.
C8_Normalization ==
  Decided =>
    /\ decision = ShouldAcceptDomain(sm, Normalize(domain))
    /\ decision = ShouldAcceptDomain(NormalizedScope(sm), domain)

\* C8 witness: an upper-case candidate has been accepted through an in-scope
\* pattern written in upper case with trailing whitespace.
C8_Witness ==
  /\ Decided
  /\ domain = <<"A">>
  /\ sm.InScope = << <<"A", " ">> >>
  /\ sm.OutScope = <<>>
  /\ decision = [accept |-> TRUE, reason |-> IN_SCOPE_MATCH]

(***************************************************************************)
(* Properties of filterDomainsBeforePost, checked under Spec.              *)
(***************************************************************************)
\* filterDomainsBeforePost has returned and its result is in value
FilterReturned == pc = "filtered"

\* the positions of s where a token starts: a non-space character at the
\* start of s or right after a space character
TokenStarts(s) ==
  {i \in 1..Len(s) : ~IsSpace(s[i]) /\ (i = 1 \/ IsSpace(s[i - 1]))}

\* the token that starts at position i: up to the next space character
TokenAt(s, i) ==
  LET ends == {j \in i..Len(s) : \A k \in i..j : ~IsSpace(s[k])}
      last == CHOOSE j \in ends : \A k \in ends : k <= j
  IN SubSeq(s, i, last)

\* the whitespace-separated non-empty tokens of s, in the order of s
TokensOf(s) ==
  LET starts == TokenStarts(s)
      nth(n) == CHOOSE i \in starts : Cardinality({j \in starts : j < i}) = n - 1
  IN [n \in 1..Cardinality(starts) |-> TokenAt(s, nth(n))]

\* a token truncated at its first ":"
KeyOf(token) ==
  LET colons == {i \in 1..Len(token) : token[i] = ":"} IN
    IF colons = {} THEN token
    ELSE SubSeq(token, 1, (CHOOSE i \in colons : \A j \in colons : i <= j) - 1)

\* the tokens of s whose key the loaded scope accepts, in the order of s
AcceptedTokens(s, m) ==
  LET Accepts(token) == ShouldAcceptDomain(m, KeyOf(token)).accept IN
    SelectSeq(TokensOf(s), Accepts)

\* the scenario of C9: the input is "a.com\nb.com b.com:1.2.3.4", the scope
\* rejects a.com and accepts b.com, and the filter has returned
ScenarioFiltered ==
  /\ FilterReturned
  /\ domainsInput = ScenarioInput
  /\ ~ShouldAcceptDomain(sm, <<"a">>).accept
  /\ ShouldAcceptDomain(sm, <<"b">>).accept

\* C9: in the scenario the accepted list is ["b.com:1.2.3.4"] and the total
\* count is 2.
C9_ScenarioAsStated ==
  ScenarioFiltered =>
    /\ acceptedDomains = << <<"b", ":", "1">> >>
    /\ Len(domains) = 2

\* C9 as amended: in the scenario the accepted list is
\* ["b.com", "b.com:1.2.3.4"] and the total count is 3.
C9_ScenarioAmended ==
  ScenarioFiltered =>
    /\ acceptedDomains = << <<"b">>, <<"b", ":", "1">> >>
    /\ Len(domains) = 3
    /\ value = <<"b", " ", "b", ":", "1">>

\* C9 witness: the scenario has been filtered with inScope = ["b.com"].
C9_Witness ==
  /\ ScenarioFiltered
  /\ sm.InScope = << <<"b">> >>
  /\ rejectedCount = 1

\* C10: when the filter returns, the accepted list is exactly the sequence, in
\* input order, of the whitespace-separated tokens of the input whose key (the
\* token up to its first ":") is accepted by ShouldAcceptDomain, each in its
\* original form; the other tokens are counted as rejected, and the result is
\* the accepted tokens joined by single spaces.
C10_FilterResult ==
  FilterReturned =>
    /\ domains = TokensOf(domainsInput)
    /\ acceptedDomains = AcceptedTokens(domainsInput, sm)
    /\ rejectedCount = Len(domains) - Len(acceptedDomains)
    /\ value = Join(acceptedDomains, <<" ">>)

\* C10 witness: of three tokens the first is rejected and the other two, which
\* differ but have the same key, are accepted in their order, the last one
\* with its annotation.
C10_Witness ==
  /\ FilterReturned
  /\ Len(domains) = 3
  /\ acceptedDomains = <<domains[2], domains[3]>>
  /\ domains[2] # domains[3]
  /\ KeyOf(domains[2]) = KeyOf(domains[3])
  /\ rejectedCount = 1


(***************************************************************************)
(* Claims about handleInputAndPost and the loading of the scope.           *)
(***************************************************************************)
\* the program points of filterDomainsBeforePost and of what follows it
FilterPcs == {"fetch_in", "fetch_out", "parse", "loop", "filtered", "return"}

\* C11: when allowOutOfScope is true the filter is never entered: no scope
\* pattern is fetched, ShouldAcceptDomain is never called, and what is posted
\* is the input as it was read, so its tokens are all the tokens of the input.
C11_PassThrough ==
  allowOutOfScope =>
    /\ pc \notin FilterPcs
    /\ fetchLog = <<>>
    /\ decisionLog = <<>>
    /\ sm = NewScopeManager(sm.company)
    /\ pc = "post" => value = rawInput
    /\ posted.sent =>
         /\ posted.value = rawInput
         /\ TokensOf(posted.value) = TokensOf(rawInput)

\* C11 witness: with the scope filter on and the key "domains", an input of
\* two tokens has been posted under allowOutOfScope.
C11_Witness ==
  /\ allowOutOfScope
  /\ enableScopeFilter
  /\ key = "domains"
  /\ pc = "posted"
  /\ Len(TokensOf(rawInput)) = 2
  /\ posted.value = rawInput


\* a fetch that fails: transport error, status other than 200, or a body that
\* is empty once trimmed
FetchFailed(resp) ==
  \/ resp.kind = "error"
  \/ resp.status # 200
  \/ resp.format = "text" /\ TrimSpace(resp.text) = <<>>

\* the patterns a body lists: the items of a JSON array, or the non-empty
\* trimmed lines of a text
ListedPatterns(resp) ==
  IF resp.format = "json" THEN resp.items
  ELSE TrimmedLines(Split(TrimSpace(resp.text), "\n"))

\* the pattern list a fetch leaves in the ScopeManager
LoadedFrom(resp) == IF FetchFailed(resp) THEN <<>> ELSE ListedPatterns(resp)

DefaultAccept == [accept |-> TRUE, reason |-> NO_RULES_DEFAULT_ACCEPT]

\* C12: each of the two fetches on its own leaves an empty list when it fails
\* and the listed patterns when it succeeds, whatever the other fetch did;
\* LoadScope never reports an error, the run never exits once loading has
\* begun and every token of the batch is decided; when both fetches fail,
\* every decision is an acceptance with NO_RULES_DEFAULT_ACCEPT.
C12_FailSoft ==
  /\ loadErr = FALSE
  /\ pc = "exit" => fetchLog = <<>>
  /\ sm.InScope = IF Len(fetchLog) >= 1 THEN LoadedFrom(fetchLog[1].resp) ELSE <<>>
  /\ sm.OutScope = IF Len(fetchLog) >= 2 THEN LoadedFrom(fetchLog[2].resp) ELSE <<>>
  /\ pc \in {"filtered", "return"} =>
       /\ domains = TokensOf(domainsInput)
       /\ Len(decisionLog) = Len(domains)
  /\ (Len(fetchLog) = 2 /\ FetchFailed(fetchLog[1].resp) /\ FetchFailed(fetchLog[2].resp)) =>
       \A i \in 1..Len(decisionLog) : decisionLog[i].decision = DefaultAccept

\* C12 witness: the in-scope fetch listed a pattern, the out-of-scope fetch
\* failed in transport, and the batch went on to reject a token for matching
\* no in-scope pattern.
C12_Witness ==
  /\ pc = "filtered"
  /\ Len(fetchLog) = 2
  /\ ~FetchFailed(fetchLog[1].resp)
  /\ fetchLog[2].resp.kind = "error"
  /\ sm.InScope # <<>>
  /\ \E i \in 1..Len(decisionLog) : decisionLog[i].decision.reason = NO_IN_SCOPE_MATCH


\* the run went through filterDomainsBeforePost
Filtered == fetchLog # <<>>

\* C13: when the filter is applied, a POST carries exactly the accepted
\* tokens joined by single spaces, and there is at least one of them; when no
\* token is accepted the run ends by returning, with no POST and without
\* exiting.
C13_EverythingFilteredOut ==
  /\ (posted.sent /\ Filtered) =>
       /\ acceptedDomains # <<>>
       /\ acceptedDomains = AcceptedTokens(rawInput, sm)
       /\ posted.value = Join(acceptedDomains, <<" ">>)
  /\ (pc = "filtered" /\ acceptedDomains = <<>>) => (value = <<>> /\ ~posted.sent)
  /\ pc = "return" =>
       (Filtered /\ ~posted.sent /\ acceptedDomains = <<>> /\ idx > Len(domains))
  /\ pc = "exit" => ~Filtered

\* C13 witness: a batch of two tokens, both rejected, has ended with a plain
\* return and nothing posted.
C13_Witness ==
  /\ pc = "return"
  /\ Len(domains) = 2
  /\ rejectedCount = 2
  /\ acceptedDomains = <<>>
  /\ ~posted.sent


\* C14: the pattern "*" matches every candidate that is non-empty once trimmed
\* and lower-cased.
C14_StarMatchesEveryNonEmpty ==
  (MatchReturned /\ Normalize(pattern) = <<"*">> /\ Normalize(domain) # <<>>) => matched


\* the ScopeManager that LoadScope built from the two answers of the server
LoadedScope ==
  [InScope |-> LoadedFrom(fetchLog[1].resp),
   OutScope |-> LoadedFrom(fetchLog[2].resp),
   company |-> "acme"]

\* C15: once loaded, the ScopeManager stays what the two fetches made it,
\* however many candidates have been decided; every decision made so far is
\* the one the loaded scope gives for its candidate, so two decisions on the
\* same candidate are equal whatever was decided before them.
C15_PureDecisions ==
  /\ Len(fetchLog) = 2 => sm = LoadedScope
  /\ Len(fetchLog) < 2 => decisionLog = <<>>
  /\ \A i \in 1..Len(decisionLog) :
       /\ decisionLog[i].decision =
            ShouldAcceptDomain(LoadedScope, decisionLog[i].candidate)
       /\ \A j \in 1..Len(decisionLog) :
            decisionLog[i].candidate = decisionLog[j].candidate =>
              decisionLog[i].decision = decisionLog[j].decision

\* C15 witness: three decisions on one loaded scope, the first a rejection,
\* the second and third acceptances of one and the same other candidate.
C15_Witness ==
  /\ pc = "filtered"
  /\ Len(decisionLog) = 3
  /\ ~decisionLog[1].decision.accept
  /\ decisionLog[2].decision.accept
  /\ decisionLog[2].candidate = decisionLog[3].candidate
  /\ decisionLog[1].candidate # decisionLog[2].candidate
  /\ sm = LoadedScope


(***************************************************************************)
(* Further properties of ShouldAcceptDomain.                               *)
(***************************************************************************)
\* the set of the elements of a sequence
Range(seq) == {seq[i] : i \in 1..Len(seq)}

\* the decision as a function of the two sets of patterns
DecideBySets(inSet, outSet, d) ==
  IF \E p \in outSet : matchesPattern(Normalize(d), p)
    THEN [accept |-> FALSE, reason |-> OUT_OF_SCOPE_MATCH]
  ELSE IF \E p \in inSet : matchesPattern(Normalize(d), p)
    THEN [accept |-> TRUE, reason |-> IN_SCOPE_MATCH]
  ELSE IF inSet = {} THEN [accept |-> TRUE, reason |-> NO_RULES_DEFAULT_ACCEPT]
  ELSE [accept |-> FALSE, reason |-> NO_IN_SCOPE_MATCH]

\* a list in the opposite order
Reverse(seq) == [i \in 1..Len(seq) |-> seq[Len(seq) + 1 - i]]

\* C16: the decision, reason included, is a function of the set of in-scope
\* patterns and of the set of out-of-scope patterns, so that lists with the
\* same patterns in another order or in more copies give the same decision;
\* in particular the lists in the opposite order do.
C16_PatternsAsSet ==
  Decided =>
    /\ decision = DecideBySets(Range(sm.InScope), Range(sm.OutScope), domain)
    /\ decision = ShouldAcceptDomain([sm EXCEPT !.InScope = Reverse(@),
                                                !.OutScope = Reverse(@)], domain)

\* C16 witness: a candidate accepted because of the second of two different
\* in-scope patterns, the first of which it does not match.
C16_Witness ==
  /\ Decided
  /\ Len(sm.InScope) = 2
  /\ sm.InScope[1] # sm.InScope[2]
  /\ ~MatchesSome(domain, <<sm.InScope[1]>>)
  /\ MatchesSome(domain, <<sm.InScope[2]>>)
  /\ decision = [accept |-> TRUE, reason |-> IN_SCOPE_MATCH]


\* C17: under SpecAcme, with s the domain of the in-scope pattern "*." + s and
\* xs the out-of-scope domain x + "." + s: the apex s is accepted with
\* IN_SCOPE_MATCH, every subdomain of s that is neither xs nor a subdomain of
\* xs is accepted with IN_SCOPE_MATCH, and xs is rejected with
\* OUT_OF_SCOPE_MATCH.
C17_AcmeScenario ==
  Decided =>
    LET s == SubSeq(sm.InScope[1], 3, Len(sm.InScope[1]))
        xs == sm.OutScope[1]
    IN /\ domain = s => decision = [accept |-> TRUE, reason |-> IN_SCOPE_MATCH]
       /\ (HasSuffix(domain, <<".">> \o s) /\ domain # xs
             /\ ~HasSuffix(domain, <<".">> \o xs)) =>
            decision = [accept |-> TRUE, reason |-> IN_SCOPE_MATCH]
       /\ domain = xs => decision = [accept |-> FALSE, reason |-> OUT_OF_SCOPE_MATCH]

\* C17 witness: the out-of-scope domain x + "." + s itself, which the in-scope
\* wildcard covers too, has been rejected.
C17_Witness ==
  /\ Decided
  /\ Len(sm.OutScope) = 1
  /\ domain = sm.OutScope[1]
  /\ MatchesSome(domain, sm.InScope)
  /\ decision = [accept |-> FALSE, reason |-> OUT_OF_SCOPE_MATCH]


\* the scope types of the fetches made so far, in their order
FetchTypes == [i \in 1..Len(fetchLog) |-> fetchLog[i].scopeType]

\* C18: the fetches of a run are, in this order, one for the in-scope list and
\* one for the out-of-scope list and no more; both have been made before the
\* first call of ShouldAcceptDomain and none is made during or after the
\* loop; a run that does not filter makes none.
C18_FetchOrder ==
  /\ FetchTypes \in {<<>>, <<"in">>, <<"in", "out">>}
  /\ pc = "fetch_in" => FetchTypes = <<>>
  /\ pc = "fetch_out" => FetchTypes = <<"in">>
  /\ pc \in {"parse", "loop", "filtered", "return"} => FetchTypes = <<"in", "out">>
  /\ decisionLog # <<>> => FetchTypes = <<"in", "out">>
  /\ pc \in {"start", "gate", "post", "exit"} => FetchTypes = <<>>

\* C18 witness: the loop has decided two candidates after exactly the two
\* fetches.
C18_Witness ==
  /\ pc = "loop"
  /\ Len(decisionLog) = 2
  /\ FetchTypes = <<"in", "out">>
  /\ fetchLog[1].resp # fetchLog[2].resp


(***************************************************************************)
(* Patterns with metacharacters, checked under SpecMeta.                   *)
(***************************************************************************)
\* the match of a candidate against a pattern whose characters other than
\* "*" all stand for themselves
LiteralMatch(d, p) ==
  LET np == Normalize(p)
      nd == Normalize(d)
  IN \/ np = nd
     \/ /\ Contains(np, <<"*">>)
        /\ IF HasPrefix(np, <<"*", ".">>)
           THEN LET s == SubSeq(np, 3, Len(np)) IN nd = s \/ HasSuffix(nd, <<".">> \o s)
           ELSE GlobMatch(np, nd)
     \/ ~Contains(np, <<"*">>) /\ HasSuffix(nd, <<".">> \o np)

\* the decision that follows from the literal reading of the patterns
LiteralDecision(m, d) ==
  IF \E i \in 1..Len(m.OutScope) : LiteralMatch(d, m.OutScope[i])
    THEN [accept |-> FALSE, reason |-> OUT_OF_SCOPE_MATCH]
  ELSE IF \E i \in 1..Len(m.InScope) : LiteralMatch(d, m.InScope[i])
    THEN [accept |-> TRUE, reason |-> IN_SCOPE_MATCH]
  ELSE IF m.InScope = <<>> THEN [accept |-> TRUE, reason |-> NO_RULES_DEFAULT_ACCEPT]
  ELSE [accept |-> FALSE, reason |-> NO_IN_SCOPE_MATCH]

\* C19: whatever metacharacters the pattern of the scope contains, the batch
\* runs to its end: every token of the input gets a decision, and each
\* decision is the one of the literal reading of the pattern, in which only
\* "*" is special.
C19_MalformedPatterns ==
  /\ pc \in {"parse", "loop", "filtered"}
  /\ \A i \in 1..Len(decisionLog) :
       decisionLog[i].decision = LiteralDecision(sm, decisionLog[i].candidate)
  /\ pc = "loop" => Len(decisionLog) = idx - 1
  /\ pc = "filtered" => Len(decisionLog) = Len(TokensOf(rawInput))

\* C19 witness: with an in-scope pattern that has an unclosed "(" or "[" and
\* a "*", a batch of two tokens has ended with one accepted and one rejected.
C19_Witness ==
  /\ pc = "filtered"
  /\ Len(sm.InScope) = 1
  /\ Contains(sm.InScope[1], <<"*">>)
  /\ Contains(sm.InScope[1], <<"(">>) \/ Contains(sm.InScope[1], <<"[">>)
  /\ Len(decisionLog) = 2
  /\ Len(acceptedDomains) = 1
  /\ rejectedCount = 1


(***************************************************************************)
(* The commands, checked under SpecCmd.                                    *)
(***************************************************************************)
\* handleInputAndPost has evaluated the condition of the filter
GatePassed == pc \notin {"run", "start", "gate", "exit"}

\* the input went, or is going, through filterDomainsBeforePost
OnFilterPath == pc \in FilterPcs \/ (pc = "posted" /\ Filtered)

\* C20: once handleInputAndPost has passed its condition, the input is on the
\* path of the filter exactly when enableScopeFilter is true, allowOutOfScope
\* is false and the key is "domains".  For a domain command, add or remove,
\* the key is "domains" and enableScopeFilter is the value of --scope-filter
\* (true when not given), so the input is filtered exactly when the flag is
\* on and allowOutOfScope is off; for an ip or asn command the input is never
\* filtered and is posted as it was read.
C20_FilterGating ==
  /\ GatePassed =>
       (OnFilterPath <=> (enableScopeFilter /\ ~allowOutOfScope /\ key = "domains"))
  /\ (command \in CRUDCommands /\ ~scopeFilterChanged) => enableScopeFilter
  /\ (command \in CRUDCommands /\ pc # "run") => key = dataKeyOf(command.resource)
  /\ (command.resource = "domain" /\ GatePassed) =>
       (OnFilterPath <=> (enableScopeFilter /\ ~allowOutOfScope))
  /\ command.resource \in {"ip", "asn"} =>
       /\ ~OnFilterPath
       /\ fetchLog = <<>>
       /\ decisionLog = <<>>
       /\ posted.sent =>
            (posted.value = rawInput /\ posted.key \in {"ips", "asns"}
               /\ posted.path = endpointOf(command))

\* C20 witness: `domain remove` with both flags at their defaults has posted
\* an input from which the filter removed a token.
C20_Witness ==
  /\ command = [resource |-> "domain", action |-> "remove"]
  /\ ~scopeFilterChanged
  /\ ~allowOutOfScope
  /\ pc = "posted"
  /\ posted.path = "/api/domains/remove"
  /\ rejectedCount >= 1
  /\ posted.value # rawInput


\* C21: for inscope, outscope, remove-inscope and remove-outscope, a run in
\* which --scope-filter was not given never enters the filter and posts the
\* input as it was read; the input is filtered only in runs in which the flag
\* was given as true (and then exactly when allowOutOfScope is false).
C21_ScopeCommandsBypass ==
  (command \in ScopeCommands /\ pc # "run") =>
    /\ key = "domains"
    /\ path = endpointOf(command)
    /\ ~scopeFilterChanged =>
         /\ ~enableScopeFilter
         /\ pc \notin FilterPcs
         /\ fetchLog = <<>>
         /\ decisionLog = <<>>
         /\ posted.sent => (posted.value = rawInput /\ posted.path = endpointOf(command))
    /\ GatePassed =>
         (OnFilterPath <=> (scopeFilterChanged /\ enableScopeFilter /\ ~allowOutOfScope))

\* C21 witness: `scope remove-inscope` without --scope-filter has posted its
\* two patterns as they were given.
C21_Witness ==
  /\ command = [resource |-> "scope", action |-> "remove-inscope"]
  /\ ~scopeFilterChanged
  /\ ~allowOutOfScope
  /\ pc = "posted"
  /\ posted.path = "/api/scope/remove"
  /\ Len(TokensOf(rawInput)) = 2
  /\ posted.value = rawInput


(***************************************************************************)
(* The source of the input, checked under SpecInput.                       *)
(***************************************************************************)
\* C22: once the arguments have been looked at: without arguments the run
\* exits; a first argument "-" means standard input; a first argument that
\* starts with "@" means the file named by the rest of it; any other
\* arguments are the input themselves, joined by single spaces; the run exits
\* only without arguments or on a file that cannot be read, and a run that
\* exits posts nothing.
C22_InputSource ==
  pc # "start" =>
    /\ args = <<>> => pc = "exit"
    /\ (args # <<>> /\ args[1] = <<"-">>) =>
         inputSource = [kind |-> "stdin", name |-> <<>>]
    /\ (args # <<>> /\ args[1] # <<"-">> /\ HasPrefix(args[1], <<"@">>)) =>
         inputSource = [kind |-> "file", name |-> SubSeq(args[1], 2, Len(args[1]))]
    /\ (args # <<>> /\ args[1] # <<"-">> /\ ~HasPrefix(args[1], <<"@">>)) =>
         /\ inputSource = [kind |-> "args", name |-> <<>>]
         /\ rawInput = Join(args, <<" ">>)
    /\ pc = "exit" => (~posted.sent /\ (args = <<>> \/ inputSource.kind = "file"))


(***************************************************************************)
(* Further properties of matchesPattern, checked under SpecMatch.          *)
(***************************************************************************)
\* the pattern "*." + s
StarDot(s) == <<"*", ".">> \o s

\* a scope whose only pattern is p, in the in-scope or in the out-of-scope list
OnlyInScope(p) == [InScope |-> <<p>>, OutScope |-> <<>>, company |-> "acme"]

OnlyOutScope(p) == [InScope |-> <<>>, OutScope |-> <<p>>, company |-> "acme"]

\* s and "*." + s match the candidate alike and give the same decision
SameAsStarDot(s, d) ==
  /\ matchesPattern(d, s) <=> matchesPattern(d, StarDot(s))
  /\ ShouldAcceptDomain(OnlyInScope(s), d) = ShouldAcceptDomain(OnlyInScope(StarDot(s)), d)
  /\ ShouldAcceptDomain(OnlyOutScope(s), d) = ShouldAcceptDomain(OnlyOutScope(StarDot(s)), d)

\* C23 as stated: for every pattern s without "*", s and "*." + s match the
\* same candidates and give the same decisions.
C23_SuffixEquivalenceAsStated ==
  (MatchReturned /\ ~Contains(pattern, <<"*">>)) =>
    /\ matched = matchesPattern(domain, StarDot(pattern))
    /\ SameAsStarDot(pattern, domain)

\* C23, amended: for every pattern s without "*" that does not begin with
\* white space, s and "*." + s match the same candidates and give the same
\* decisions.
C23_SuffixEquivalence ==
  (MatchReturned /\ ~Contains(pattern, <<"*">>) /\ TrimLeft(pattern) = pattern) =>
    /\ matched = matchesPattern(domain, StarDot(pattern))
    /\ SameAsStarDot(pattern, domain)

\* C23 witness: a pattern s without "*" and without white space has matched a
\* subdomain of itself, which "*." + s matches too.
C23_Witness ==
  /\ MatchReturned
  /\ pattern # <<>>
  /\ ~Contains(pattern, <<"*">>)
  /\ TrimSpace(pattern) = pattern
  /\ matched
  /\ Normalize(domain) # Normalize(pattern)
  /\ matchesPattern(domain, StarDot(pattern))


\* a list without its last element
Front(seq) == SubSeq(seq, 1, Len(seq) - 1)

\* C24: the scope of a decision is the scope without its last out-of-scope
\* pattern plus that pattern, and likewise for the in-scope list.  If the
\* candidate is accepted, it was accepted before the out-of-scope pattern was
\* added (adding it never turns a rejection into an acceptance); if the
\* candidate is rejected and the in-scope list was not empty before its last
\* pattern was added, it was rejected before (adding to a non-empty in-scope
\* list never turns an acceptance into a rejection).
C24_Monotone ==
  Decided =>
    /\ (Len(sm.OutScope) >= 1 /\ decision.accept) =>
         ShouldAcceptDomain([sm EXCEPT !.OutScope = Front(@)], domain).accept
    /\ (Len(sm.InScope) >= 2 /\ ~decision.accept) =>
         ~ShouldAcceptDomain([sm EXCEPT !.InScope = Front(@)], domain).accept

\* C24 witness: a candidate rejected for matching no in-scope pattern, with
\* two different in-scope patterns and an out-of-scope pattern in the scope:
\* it was rejected as well before the second in-scope pattern was added.
C24_Witness ==
  /\ Decided
  /\ Len(sm.InScope) = 2
  /\ sm.InScope[1] # sm.InScope[2]
  /\ Len(sm.OutScope) >= 1
  /\ decision = [accept |-> FALSE, reason |-> NO_IN_SCOPE_MATCH]
  /\ ~ShouldAcceptDomain([sm EXCEPT !.InScope = Front(@)], domain).accept


(***************************************************************************)
(* Patterns "*." + s with a "*" in s, checked under SpecStar.              *)
(***************************************************************************)
\* C25: a pattern "*." + s whose s contains a "*" matches exactly the
\* candidates that equal s or end with "." + s, the "*" of s standing for
\* itself; so it does not match a candidate that only the wildcard reading of
\* that "*" would let through, and "*.a.*.com" matches "a.*.com" and
\* "x.a.*.com" but not "x.a.b.com".
C25_SuffixRuleOnly ==
  MatchReturned =>
    LET s == SubSeq(pattern, 3, Len(pattern)) IN
      /\ matched <=> (domain = s \/ HasSuffix(domain, <<".">> \o s))
      /\ (~Contains(domain, <<"*">>)) => ~matched
      /\ pattern = StarScenarioPattern =>
           (matched <=> domain \in {<<"a", ".", "*", ".", "c", "o", "m">>,
                                    <<"x", ".", "a", ".", "*", ".", "c", "o", "m">>})

\* C25 witness: "*.a.*.com" has refused "x.a.b.com", which the pattern read as
\* a glob would match.
C25_Witness ==
  /\ MatchReturned
  /\ pattern = StarScenarioPattern
  /\ domain = <<"x", ".", "a", ".", "b", ".", "c", "o", "m">>
  /\ GlobMatch(pattern, domain)
  /\ ~matched


(***************************************************************************)
(* The filter applied to its own result, checked under SpecTwice.          *)
(***************************************************************************)
\* C26: when the filter has run on what its first run returned, with the
\* scope unchanged, it returns the same value: the tokens are those of the
\* first result, in their order, every one of them is accepted and none is
\* rejected.
C26_Idempotent ==
  /\ pass = 2 => sm = LoadedScope
  /\ (pc = "filtered" /\ pass = 2) =>
       /\ domainsInput = firstValue
       /\ domains = TokensOf(firstValue)
       /\ acceptedDomains = domains
       /\ rejectedCount = 0
       /\ value = firstValue

\* C26 witness: the first run removed a token and kept two, one of them with
\* an annotation; the second run has returned the same two.
C26_Witness ==
  /\ pc = "filtered"
  /\ pass = 2
  /\ Len(TokensOf(rawInput)) = 3
  /\ Len(acceptedDomains) = 2
  /\ \E i \in 1..2 : Contains(acceptedDomains[i], <<":">>)
  /\ value = firstValue

====
